---- MODULE Spec2Model ----
(***************************************************************************)
(* Fee ledger of the school-management backend                             *)
(* (backend/app/api/v1/endpoints/fees.py).                                 *)
(*                                                                         *)
(* Money is held in integer minor units.  An id of 0, a note of "" and a   *)
(* timestamp of -1 stand for Python's None.  A handler is a function of    *)
(* the tables and the request: its response (XOutcome) and the tables it   *)
(* commits (XAssigns, XPayments); the action applies it.                   *)
(***************************************************************************)
EXTENDS Integers, Sequences, FiniteSets, TLC

\* ---------------------------------------------------------------- bounds
MaxAssigns == 2
MaxPayments == 2
MaxAmount == 2
MaxTime == 1
MaxBatch == 2

\* ---------------------------------------------------------------- tables
\* schools rows (ids): the table the ledger runs start with
Schools == {1}
Students == {1, 2}
AdminId == 9

\* fees_masters rows (FeesMasterBase: amount > 0), fixed for the run
FeesMasters ==
    <<[school_id |-> 1, amount |-> 2, academic_year |-> "2024", term |-> "T1", due_date |-> 1]>>

\* fees_discounts rows accepted by FeesDiscountCreate (amount > 0, percentage <= 100):
\* the table the ledger runs start with
FeesDiscounts ==
    <<[school_id |-> 1, discount_type |-> "percentage", amount |-> 100],
      [school_id |-> 1, discount_type |-> "fixed", amount |-> 1]>>

\* users with role "student": the school of each
StudentSchool == [s \in Students |-> 1]

Classes == {1}

PaymentMethodEnum == {"cash"}
CreateNotes == {"memo"}
VerifyNotes == {"", "checked"}

VARIABLES
    assigns,    \* fees_assigns table: sequence of rows, id = index
    payments,   \* fees_payments table: sequence of rows, id = index
    now,        \* int(time.time()) as last read
    sess,       \* per request worker: what its session has loaded and not committed
    discounts,  \* fees_discounts table: sequence of rows, id = index
    reminders,  \* fees_reminders table: sequence of rows, id = index
    schools,    \* schools table: the ids of its rows
    masters,    \* fees_masters table: sequence of rows, id = index
    call,       \* one _call_ai invocation: the settings, the providers' answers, the outcome
    extract     \* one _extract_json invocation: the text and the outcome

\* the tables none of the operations below writes
catalog == <<schools, masters>>

\* the state of the AI service, which the ledger does not touch
aivars == <<call, extract>>

vars == <<assigns, payments, now, sess, discounts, reminders, schools, masters, call, extract>>

\* ---------------------------------------------------------------- helpers
Min(a, b) == IF a < b THEN a ELSE b

Max(a, b) == IF a > b THEN a ELSE b

\* the readings of the clock a handler may take: time does not run backwards
ClockReadings == now .. Min(now + 1, MaxTime)

Outcome(code, detail) == [code |-> code, detail |-> detail]

\* receipt_number = f"{PREFIX}-{school_id}-{int(time.time())}-{assign.id}"
ReceiptNumber(prefix, school_id, t, assign_id) == <<prefix, school_id, t, assign_id>>

\* the UNIQUE index on fees_payments.receipt_number: would this INSERT violate it
ReceiptTaken(receipt) == \E i \in DOMAIN payments : payments[i].receipt_number = receipt

\* ------------------------------------------------------- collect_fees
\* FeesPaymentCreate: amount: float = Field(..., gt=0)
AmountValid(amount) == amount > 0

StudentMismatch(assign, student_id) == assign.student_id # student_id

\* mutant: the amount is compared with the total instead of the balance
ExceedsTotal(amount, assign) == amount > assign.total_amount

ExceedsBalance(amount, assign) == amount > assign.balance

AlreadyPaid(assign) == assign.status = "paid"

\* mutant: a balance of exactly 0 is not taken as paid
CollectStatusStrict(balance) == IF balance < 0 THEN "paid" ELSE "partial"

CollectStatus(balance) == IF balance <= 0 THEN "paid" ELSE "partial"

\* mutant: the balance is not decremented
CollectApplyKeepsBalance(assign, amount) ==
    [assign EXCEPT !.paid_amount = @ + amount,
                   !.status = CollectStatus(assign.balance - amount)]

\* assign.paid_amount += amount; assign.balance -= amount; assign.status = ...
CollectApply(assign, amount) ==
    [assign EXCEPT !.paid_amount = @ + amount,
                   !.balance = @ - amount,
                   !.status = CollectStatus(assign.balance - amount)]

CollectPaymentRow(data, assign, aid, receipt) ==
    [school_id |-> data.school_id,
     student_id |-> data.student_id,
     fees_assign_id |-> aid,
     fees_master_id |-> assign.fees_master_id,
     amount |-> data.amount,
     payment_method |-> data.payment_method,
     receipt_number |-> receipt,
     note |-> data.note,
     is_verified |-> TRUE,
     verified_by |-> 0,
     verified_at |-> -1]

\* the request bodies FeesPaymentCreate parses (amount 0 stands for the invalid ones)
PaymentData ==
    [school_id : schools, student_id : Students, fees_assign_id : 1 .. (Len(assigns) + 1),
     amount : 0 .. MaxAmount, payment_method : PaymentMethodEnum, note : CreateNotes]

CollectOutcome(data, t) ==
    LET aid == data.fees_assign_id IN
    IF ~AmountValid(data.amount)
      THEN Outcome(422, "validation error")
    ELSE IF aid \notin DOMAIN assigns
      THEN Outcome(404, "Fees assignment not found")
    ELSE IF StudentMismatch(assigns[aid], data.student_id)
      THEN Outcome(400, "Student ID does not match the fees assignment")
    ELSE IF ExceedsBalance(data.amount, assigns[aid])
      THEN Outcome(400, "Payment amount exceeds balance")
    ELSE IF AlreadyPaid(assigns[aid])
      THEN Outcome(400, "This fee has already been fully paid")
    ELSE IF ReceiptTaken(ReceiptNumber("RCP", data.school_id, t, aid))
      THEN Outcome(500, "IntegrityError")
    ELSE Outcome(201, "created")

CollectPayments(data, t) ==
    LET aid == data.fees_assign_id IN
    IF CollectOutcome(data, t).code # 201 THEN payments
    ELSE Append(payments, CollectPaymentRow(data, assigns[aid], aid,
                              ReceiptNumber("RCP", data.school_id, t, aid)))

CollectAssigns(data, t) ==
    IF CollectOutcome(data, t).code # 201 THEN assigns
    ELSE [assigns EXCEPT ![data.fees_assign_id] = CollectApply(@, data.amount)]

collect_fees(data, t) ==
    /\ Len(CollectPayments(data, t)) <= MaxPayments
    /\ payments' = CollectPayments(data, t)
    /\ assigns' = CollectAssigns(data, t)
    /\ now' = t
    /\ UNCHANGED <<sess, discounts, reminders, catalog, aivars>>

CollectPayment == \E data \in PaymentData, t \in ClockReadings : collect_fees(data, t)

\* ------------------------------------------ create_offline_bank_payment
\* mutant: the offline payment is stored as verified
OfflinePaymentRowVerified(data, assign, aid, receipt) ==
    [school_id |-> data.school_id,
     student_id |-> data.student_id,
     fees_assign_id |-> aid,
     fees_master_id |-> assign.fees_master_id,
     amount |-> data.amount,
     payment_method |-> "bank_transfer",
     receipt_number |-> receipt,
     note |-> data.note,
     is_verified |-> TRUE,
     verified_by |-> 0,
     verified_at |-> -1]

OfflinePaymentRow(data, assign, aid, receipt) ==
    [school_id |-> data.school_id,
     student_id |-> data.student_id,
     fees_assign_id |-> aid,
     fees_master_id |-> assign.fees_master_id,
     amount |-> data.amount,
     payment_method |-> "bank_transfer",
     receipt_number |-> receipt,
     note |-> data.note,
     is_verified |-> FALSE,
     verified_by |-> 0,
     verified_at |-> -1]

OfflineOutcome(data, t) ==
    LET aid == data.fees_assign_id IN
    IF ~AmountValid(data.amount)
      THEN Outcome(422, "validation error")
    ELSE IF aid \notin DOMAIN assigns
      THEN Outcome(404, "Fees assignment not found")
    ELSE IF ExceedsBalance(data.amount, assigns[aid])
      THEN Outcome(400, "Payment amount exceeds balance")
    ELSE IF ReceiptTaken(ReceiptNumber("OBP", data.school_id, t, aid))
      THEN Outcome(500, "IntegrityError")
    ELSE Outcome(201, "created")

OfflinePayments(data, t) ==
    LET aid == data.fees_assign_id IN
    IF OfflineOutcome(data, t).code # 201 THEN payments
    ELSE Append(payments, OfflinePaymentRow(data, assigns[aid], aid,
                              ReceiptNumber("OBP", data.school_id, t, aid)))

\* mutant: the balance is taken at creation, as a direct collection does
OfflineAssignsApplied(data, t) ==
    IF OfflineOutcome(data, t).code # 201 THEN assigns
    ELSE [assigns EXCEPT ![data.fees_assign_id] = CollectApply(@, data.amount)]

\* the handler loads the assignment and writes none of its fields
OfflineAssigns(data, t) == assigns

create_offline_bank_payment(data, t) ==
    /\ Len(OfflinePayments(data, t)) <= MaxPayments
    /\ payments' = OfflinePayments(data, t)
    /\ assigns' = OfflineAssigns(data, t)
    /\ now' = t
    /\ UNCHANGED <<sess, discounts, reminders, catalog, aivars>>

CreateOfflinePayment ==
    \E data \in PaymentData, t \in ClockReadings : create_offline_bank_payment(data, t)

\* ------------------------------------------ verify_offline_bank_payment
\* OfflineBankPaymentVerify: is_verified: bool = True, note: Optional[str]
VerifyData == [is_verified : BOOLEAN, note : VerifyNotes]

\* if payment.is_verified: raise HTTPException(400, "Payment already verified")
VerifyRefused(payment) == payment.is_verified

\* mutant: 'paid' only when the balance is exactly zero
VerifyStatusStrict(balance) == IF balance = 0 THEN "paid" ELSE "partial"

VerifyStatus(balance) == IF balance <= 0 THEN "paid" ELSE "partial"

\* assign.paid_amount += payment.amount; assign.balance -= payment.amount; status
VerifyApply(assign, amount) ==
    [assign EXCEPT !.paid_amount = @ + amount,
                   !.balance = @ - amount,
                   !.status = VerifyStatus(assign.balance - amount)]

\* mutant: the balance is updated whatever the flag
VerifyAssignAlways(assign, payment, flag) == VerifyApply(assign, payment.amount)

\* if data.is_verified: ... the linked assignment after the call
VerifyAssign(assign, payment, flag) ==
    IF flag THEN VerifyApply(assign, payment.amount) ELSE assign

VerifyPaymentRow(payment, data, t) ==
    [payment EXCEPT !.is_verified = data.is_verified,
                    !.verified_by = AdminId,
                    !.verified_at = t,
                    !.note = IF data.note # "" THEN data.note ELSE @]

VerifyOutcome(payment_id, data) ==
    IF payment_id \notin DOMAIN payments
      THEN Outcome(404, "Payment not found")
    ELSE IF VerifyRefused(payments[payment_id])
      THEN Outcome(400, "Payment already verified")
    ELSE Outcome(200, "ok")

VerifyPayments(payment_id, data, t) ==
    IF VerifyOutcome(payment_id, data).code # 200 THEN payments
    ELSE [payments EXCEPT ![payment_id] = VerifyPaymentRow(@, data, t)]

VerifyAssigns(payment_id, data) ==
    IF VerifyOutcome(payment_id, data).code # 200 THEN assigns
    ELSE LET aid == payments[payment_id].fees_assign_id IN
         IF aid \notin DOMAIN assigns THEN assigns
         ELSE [assigns EXCEPT ![aid] =
                  VerifyAssign(@, payments[payment_id], data.is_verified)]

verify_offline_bank_payment(payment_id, data, t) ==
    /\ payments' = VerifyPayments(payment_id, data, t)
    /\ assigns' = VerifyAssigns(payment_id, data)
    /\ now' = t
    /\ UNCHANGED <<sess, discounts, reminders, catalog, aivars>>

VerifyOfflinePayment ==
    \E payment_id \in 1 .. (Len(payments) + 1), data \in VerifyData, t \in ClockReadings :
        verify_offline_bank_payment(payment_id, data, t)

\* ---------------------------------------------------- quick_assign_fees
\* round(x, 2) of the exact quotient n / d minor units (d > 0), ties to even
RoundCents(n, d) ==
    LET q == n \div d
        r == n % d
    IN IF 2 * r > d THEN q + 1
       ELSE IF 2 * r < d THEN q
       ELSE IF q % 2 = 0 THEN q ELSE q + 1

\* total = master.amount, then the discount (if one was found), then round(total, 2)
DiscountedTotal(amount, discount_id) ==
    IF discount_id \notin DOMAIN discounts THEN amount
    ELSE LET discount == discounts[discount_id] IN
         IF discount.discount_type = "percentage"
           THEN RoundCents(amount * (100 - discount.amount), 100)
           ELSE Max(0, amount - discount.amount)

\* status="unpaid", whatever the total
QuickAssignStatus(total) == "unpaid"

QuickAssignRow(data, sid, master_id) ==
    LET total == DiscountedTotal(masters[master_id].amount, data.discount_id) IN
    [school_id |-> data.school_id,
     student_id |-> sid,
     fees_master_id |-> master_id,
     discount_id |-> data.discount_id,
     total_amount |-> total,
     paid_amount |-> 0,
     balance |-> total,
     status |-> QuickAssignStatus(total),
     due_date |-> masters[master_id].due_date,
     is_carried_forward |-> FALSE]

\* the "already assigned" query.  It reads the committed table only: the session
\* is made with autoflush=False, so rows added earlier in the loop are not seen
AlreadyAssigned(sid, master_id) ==
    \E i \in DOMAIN assigns :
        /\ assigns[i].student_id = sid
        /\ assigns[i].fees_master_id = master_id
        /\ assigns[i].is_carried_forward = FALSE

RECURSIVE QuickAssignCreated(_, _, _)
QuickAssignCreated(data, student_ids, master_id) ==
    IF student_ids = <<>> THEN <<>>
    ELSE LET rest == QuickAssignCreated(data, Tail(student_ids), master_id) IN
         IF AlreadyAssigned(Head(student_ids), master_id) THEN rest
         ELSE <<QuickAssignRow(data, Head(student_ids), master_id)>> \o rest

StudentIdLists == UNION {[1 .. n -> Students] : n \in 0 .. MaxBatch}

\* the active students of a school, in id order, as the class branch lists them
RECURSIVE SchoolStudentsFrom(_, _)
SchoolStudentsFrom(school_id, sid) ==
    IF sid \notin Students THEN <<>>
    ELSE (IF StudentSchool[sid] = school_id THEN <<sid>> ELSE <<>>)
         \o SchoolStudentsFrom(school_id, sid + 1)

SchoolStudents(school_id) == SchoolStudentsFrom(school_id, 1)

\* class_id 0: not given; 7: no such class.  With a class_id the handler
\* overwrites student_ids, so those requests are listed with none
QuickFeesAssign ==
    [school_id : schools, fees_master_id : 1 .. (Len(masters) + 1),
     class_id : {0}, student_ids : StudentIdLists,
     discount_id : 0 .. Len(discounts)]
    \cup
    [school_id : schools, fees_master_id : 1 .. (Len(masters) + 1),
     class_id : {7} \cup Classes, student_ids : {<<>>},
     discount_id : 0 .. Len(discounts)]

QuickAssignStudents(data) ==
    IF data.class_id # 0 THEN SchoolStudents(data.school_id) ELSE data.student_ids

QuickAssignOutcome(data) ==
    IF data.fees_master_id \notin DOMAIN masters
      THEN Outcome(404, "Fees master not found")
    ELSE IF data.class_id # 0 /\ data.class_id \notin Classes
      THEN Outcome(404, "Class not found")
    ELSE IF QuickAssignStudents(data) = <<>>
      THEN Outcome(400, "No students specified")
    ELSE Outcome(201, "created")

\* the rows the call returns: those it created
QuickAssignResult(data) ==
    IF QuickAssignOutcome(data).code # 201 THEN <<>>
    ELSE QuickAssignCreated(data, QuickAssignStudents(data), data.fees_master_id)

QuickAssignAssigns(data) == assigns \o QuickAssignResult(data)

quick_assign_fees(data, t) ==
    /\ Len(QuickAssignAssigns(data)) <= MaxAssigns
    /\ assigns' = QuickAssignAssigns(data)
    /\ now' = t
    /\ UNCHANGED <<payments, sess, discounts, reminders, catalog, aivars>>

QuickAssignFees == \E data \in QuickFeesAssign, t \in ClockReadings : quick_assign_fees(data, t)

\* ---------------------------------------------------- carry_forward_fees
AcademicYears == {"2024", "2025"}
Terms == {"", "T1"}

\* student_ids: the set of the ids listed ({} for None or an empty list)
FeesCarryForwardRequest ==
    [school_id : schools, from_academic_year : AcademicYears, from_term : Terms,
     student_ids : SUBSET Students]

\* mutant: rows that were carried forward are not sources
CarryForwardMatchesFresh(a, data) ==
    /\ a.school_id = data.school_id
    /\ a.balance > 0
    /\ masters[a.fees_master_id].academic_year = data.from_academic_year
    /\ (data.from_term # "" => masters[a.fees_master_id].term = data.from_term)
    /\ (data.student_ids # {} => a.student_id \in data.student_ids)
    /\ ~a.is_carried_forward

\* the filter of the query over FeesAssign joined to FeesMaster
CarryForwardMatches(a, data) ==
    /\ a.school_id = data.school_id
    /\ a.balance > 0
    /\ masters[a.fees_master_id].academic_year = data.from_academic_year
    /\ (data.from_term # "" => masters[a.fees_master_id].term = data.from_term)
    /\ (data.student_ids # {} => a.student_id \in data.student_ids)

\* mutant: the new row takes the source's total instead of its balance
CarryForwardRowFullTotal(a) ==
    [school_id |-> a.school_id,
     student_id |-> a.student_id,
     fees_master_id |-> a.fees_master_id,
     discount_id |-> a.discount_id,
     total_amount |-> a.total_amount,
     paid_amount |-> 0,
     balance |-> a.balance,
     status |-> "unpaid",
     due_date |-> 0,
     is_carried_forward |-> TRUE]

CarryForwardRow(a) ==
    [school_id |-> a.school_id,
     student_id |-> a.student_id,
     fees_master_id |-> a.fees_master_id,
     discount_id |-> a.discount_id,
     total_amount |-> a.balance,
     paid_amount |-> 0,
     balance |-> a.balance,
     status |-> "unpaid",
     due_date |-> 0,
     is_carried_forward |-> TRUE]

RECURSIVE CarryForwardCreated(_, _)
CarryForwardCreated(rows, data) ==
    IF rows = <<>> THEN <<>>
    ELSE LET rest == CarryForwardCreated(Tail(rows), data) IN
         IF CarryForwardMatches(Head(rows), data)
           THEN <<CarryForwardRow(Head(rows))>> \o rest
           ELSE rest

CarryForwardAssigns(data) == assigns \o CarryForwardCreated(assigns, data)

\* "Carried forward {created_count} fee items ..."
CarryForwardCount(data) == Len(CarryForwardCreated(assigns, data))

carry_forward_fees(data, t) ==
    /\ Len(CarryForwardAssigns(data)) <= MaxAssigns
    /\ assigns' = CarryForwardAssigns(data)
    /\ now' = t
    /\ UNCHANGED <<payments, sess, discounts, reminders, catalog, aivars>>

CarryForward ==
    \E data \in FeesCarryForwardRequest, t \in ClockReadings : carry_forward_fees(data, t)

\* ------------------------------------------------------ the specification
\* no _call_ai and no _extract_json invocation under way
NoCall == [pc |-> "none"]

NoExtract == [pc |-> "none"]

Workers == {1, 2}

NoData == [school_id |-> 0, student_id |-> 0, fees_assign_id |-> 0, amount |-> 0,
           payment_method |-> "", note |-> ""]

NoAssign == [school_id |-> 0, student_id |-> 0, fees_master_id |-> 0, discount_id |-> 0,
             total_amount |-> 0, paid_amount |-> 0, balance |-> 0, status |-> "",
             due_date |-> 0, is_carried_forward |-> FALSE]

IdleSession == [pc |-> "idle", data |-> NoData, assign |-> NoAssign, t |-> 0]

Init ==
    /\ schools = Schools
    /\ masters = FeesMasters
    /\ call = NoCall
    /\ extract = NoExtract
    /\ assigns = <<>>
    /\ payments = <<>>
    /\ now = 0
    /\ sess = [w \in Workers |-> IdleSession]
    /\ discounts = FeesDiscounts
    /\ reminders = <<>>

Next ==
    \/ QuickAssignFees
    \/ CarryForward
    \/ CollectPayment
    \/ CreateOfflinePayment
    \/ VerifyOfflinePayment

Spec == Init /\ [][Next]_vars

\* ------------------------------------- collect_fees, requests interleaved
\* Each request runs in a session of its own (get_db).  The row is read by the
\* query at the top of the handler, the checks and the arithmetic are done on
\* the loaded object, and db.commit() writes the INSERT and the UPDATE of the
\* changed columns with the values so computed.

\* lines 295-310: load the row, check it, read the clock
CollectLoad(w, data, t) ==
    LET aid == data.fees_assign_id IN
    /\ sess[w].pc = "idle"
    /\ AmountValid(data.amount)
    /\ aid \in DOMAIN assigns
    /\ ~StudentMismatch(assigns[aid], data.student_id)
    /\ ~ExceedsBalance(data.amount, assigns[aid])
    /\ ~AlreadyPaid(assigns[aid])
    /\ sess' = [sess EXCEPT ![w] = [pc |-> "loaded", data |-> data,
                                    assign |-> assigns[aid], t |-> t]]
    /\ now' = t
    /\ UNCHANGED <<assigns, payments, discounts, reminders, catalog, aivars>>

\* the columns the UPDATE sets, from the object the session holds
CommitRow(row, loaded, amount) ==
    LET new == CollectApply(loaded, amount) IN
    [row EXCEPT !.paid_amount = new.paid_amount,
                !.balance = new.balance,
                !.status = new.status]

\* lines 313-337: db.add(payment), the assignment's new values, db.commit()
CollectCommit(w) ==
    LET data == sess[w].data
        aid == data.fees_assign_id
        receipt == ReceiptNumber("RCP", data.school_id, sess[w].t, aid)
    IN /\ sess[w].pc = "loaded"
       /\ sess' = [sess EXCEPT ![w] = IdleSession]
       /\ UNCHANGED <<now, discounts, reminders, catalog, aivars>>
       /\ IF ReceiptTaken(receipt)
            THEN UNCHANGED <<assigns, payments>>
            ELSE /\ Len(payments) < MaxPayments
                 /\ payments' = Append(payments,
                                   CollectPaymentRow(data, sess[w].assign, aid, receipt))
                 /\ assigns' = [assigns EXCEPT ![aid] =
                                   CommitRow(@, sess[w].assign, data.amount)]

\* the table after one quick-assign call for both students, no discount
RaceInit ==
    /\ schools = Schools
    /\ masters = FeesMasters
    /\ call = NoCall
    /\ extract = NoExtract
    /\ discounts = FeesDiscounts
    /\ reminders = <<>>
    /\ assigns = <<QuickAssignRow([school_id |-> 1, discount_id |-> 0], 1, 1),
                    QuickAssignRow([school_id |-> 1, discount_id |-> 0], 2, 1)>>
    /\ payments = <<>>
    /\ now = 0
    /\ sess = [w \in Workers |-> IdleSession]

RaceNext ==
    \/ \E w \in Workers, data \in PaymentData, t \in ClockReadings : CollectLoad(w, data, t)
    \/ \E w \in Workers : CollectCommit(w)

RaceSpec == RaceInit /\ [][RaceNext]_vars

\* ------------------------------- create_fees_discount, update_fees_discount
MaxDiscounts == 2

\* validate_percentage: a percentage discount cannot exceed 100
MaxPercent == 100

\* Optional[float] = None left unset in the request body
NoAmount == 0 - 1

DiscountTypeEnum == {"percentage", "fixed"}

\* amounts sent in request bodies; 0 stands for those Field(gt=0) refuses
DiscountAmounts == {0, 1, MaxPercent, MaxPercent + 50}

FeesDiscountCreate ==
    [school_id : schools, discount_type : DiscountTypeEnum, amount : DiscountAmounts]

\* FeesDiscountBase: amount gt=0 and the validator on amount
CreateDiscountValid(data) ==
    /\ data.amount > 0
    /\ ~(data.discount_type = "percentage" /\ data.amount > MaxPercent)

CreateDiscountOutcome(data) ==
    IF ~CreateDiscountValid(data) THEN Outcome(422, "validation error")
    ELSE Outcome(201, "created")

\* fd = FeesDiscount(**data.dict()); db.add(fd); db.commit()
CreateDiscountRows(data) ==
    IF CreateDiscountOutcome(data).code # 201 THEN discounts
    ELSE Append(discounts, [school_id |-> data.school_id,
                            discount_type |-> data.discount_type,
                            amount |-> data.amount])

create_fees_discount(data) ==
    /\ Len(CreateDiscountRows(data)) <= MaxDiscounts
    /\ discounts' = CreateDiscountRows(data)
    /\ UNCHANGED <<assigns, payments, now, sess, reminders, catalog, aivars>>

CreateFeesDiscount == \E data \in FeesDiscountCreate : create_fees_discount(data)

\* the fields of FeesDiscountUpdate the ledger reads; "" and NoAmount: not set
FeesDiscountUpdate ==
    [discount_type : {""} \cup DiscountTypeEnum, amount : {NoAmount} \cup DiscountAmounts]

\* FeesDiscountUpdate: amount: Optional[float] = Field(None, gt=0), no validator
UpdateDiscountValid(data) == data.amount = NoAmount \/ data.amount > 0

UpdateDiscountOutcome(discount_id, data) ==
    IF ~UpdateDiscountValid(data) THEN Outcome(422, "validation error")
    ELSE IF discount_id \notin DOMAIN discounts THEN Outcome(404, "Fees discount not found")
    ELSE Outcome(200, "ok")

\* for key, value in data.dict(exclude_unset=True).items(): setattr(fd, key, value)
UpdateDiscountRow(fd, data) ==
    [fd EXCEPT !.discount_type = IF data.discount_type # "" THEN data.discount_type ELSE @,
               !.amount = IF data.amount # NoAmount THEN data.amount ELSE @]

UpdateDiscountRows(discount_id, data) ==
    IF UpdateDiscountOutcome(discount_id, data).code # 200 THEN discounts
    ELSE [discounts EXCEPT ![discount_id] = UpdateDiscountRow(@, data)]

update_fees_discount(discount_id, data) ==
    /\ discounts' = UpdateDiscountRows(discount_id, data)
    /\ UNCHANGED <<assigns, payments, now, sess, reminders, catalog, aivars>>

UpdateFeesDiscount ==
    \E discount_id \in 1 .. (Len(discounts) + 1), data \in FeesDiscountUpdate :
        update_fees_discount(discount_id, data)

\* the discount operations and the assignment of fees, from empty tables
DiscountInit ==
    /\ schools = Schools
    /\ masters = FeesMasters
    /\ call = NoCall
    /\ extract = NoExtract
    /\ assigns = <<>>
    /\ payments = <<>>
    /\ now = 0
    /\ sess = [w \in Workers |-> IdleSession]
    /\ discounts = <<>>
    /\ reminders = <<>>

DiscountNext ==
    \/ CreateFeesDiscount
    \/ UpdateFeesDiscount
    \/ QuickAssignFees

DiscountSpec == DiscountInit /\ [][DiscountNext]_vars

\* --------------------------------------------------- send_fees_reminders
MaxReminders == 2

ReminderTypeEnum == {"email"}

\* FeesReminderCreate; student_ids is a list and may name a student twice
FeesReminderCreate ==
    [school_id : schools, student_ids : StudentIdLists,
     reminder_type : ReminderTypeEnum, message : {""}]

\* mutant: the status filter is left out
ReminderMatchesAnyStatus(a, sid, school_id) ==
    /\ a.student_id = sid
    /\ a.school_id = school_id

\* the filter of the query: the student's unpaid/partial assignments in the school
ReminderMatches(a, sid, school_id) ==
    /\ a.student_id = sid
    /\ a.school_id = school_id
    /\ a.status \in {"unpaid", "partial"}

ReminderRow(data, sid, aid) ==
    [school_id |-> data.school_id,
     fees_assign_id |-> aid,
     student_id |-> sid,
     reminder_type |-> data.reminder_type,
     message |-> data.message,
     sent_by |-> AdminId]

\* for assign in assigns: the rows for one student, from assignment aid on
RECURSIVE RemindersFor(_, _, _)
RemindersFor(data, sid, aid) ==
    IF aid \notin DOMAIN assigns THEN <<>>
    ELSE (IF ReminderMatches(assigns[aid], sid, data.school_id)
            THEN <<ReminderRow(data, sid, aid)>> ELSE <<>>)
         \o RemindersFor(data, sid, aid + 1)

\* for sid in data.student_ids
RECURSIVE RemindersCreated(_, _)
RemindersCreated(data, student_ids) ==
    IF student_ids = <<>> THEN <<>>
    ELSE RemindersFor(data, Head(student_ids), 1)
         \o RemindersCreated(data, Tail(student_ids))

SendRemindersRows(data) == reminders \o RemindersCreated(data, data.student_ids)

\* "Sent {created} reminders to ... students"
SendRemindersCount(data) == Len(RemindersCreated(data, data.student_ids))

\* the handler reads the assignments and writes none; it does not touch payments
SendRemindersAssigns(data) == assigns

SendRemindersPayments(data) == payments

send_fees_reminders(data) ==
    /\ Len(SendRemindersRows(data)) <= MaxReminders
    /\ reminders' = SendRemindersRows(data)
    /\ assigns' = SendRemindersAssigns(data)
    /\ payments' = SendRemindersPayments(data)
    /\ UNCHANGED <<now, sess, discounts, catalog, aivars>>

SendReminders == \E data \in FeesReminderCreate : send_fees_reminders(data)

\* reminders beside the assignment and the direct collection of fees
ReminderNext ==
    \/ QuickAssignFees
    \/ CollectPayment
    \/ SendReminders

ReminderSpec == Init /\ [][ReminderNext]_vars

\* ------------------------------ quick_assign_fees, ids of no stored user
\* student_ids of the request body are not looked up in users: the id of no
\* stored user reaches the INSERT, where fees_assigns.student_id is a foreign
\* key to users.id.  Whether the database enforces it is a matter of the
\* deployment (DATABASE_URL): sqlite as connected here does not, others do.
UnknownStudent == 3

ForeignKeys == BOOLEAN

BatchStudentIdLists ==
    UNION {[1 .. n -> Students \cup {UnknownStudent}] : n \in 0 .. MaxBatch}

BatchFeesAssign ==
    [school_id : schools, fees_master_id : DOMAIN masters,
     class_id : {0}, student_ids : BatchStudentIdLists,
     discount_id : 0 .. Len(discounts)]

\* the INSERT of a row whose student_id is the id of no user
ForeignKeyViolated(rows) == \E k \in DOMAIN rows : rows[k].student_id \notin Students

\* db.commit() after the loop: one transaction for all the rows of the call
BatchAssignOutcome(data, fk) ==
    IF QuickAssignOutcome(data).code # 201 THEN QuickAssignOutcome(data)
    ELSE IF fk /\ ForeignKeyViolated(QuickAssignResult(data))
      THEN Outcome(500, "IntegrityError")
    ELSE Outcome(201, "created")

BatchAssignAssigns(data, fk) ==
    IF BatchAssignOutcome(data, fk).code # 201 THEN assigns
    ELSE QuickAssignAssigns(data)

batch_assign_fees(data, fk, t) ==
    /\ Len(BatchAssignAssigns(data, fk)) <= MaxAssigns
    /\ assigns' = BatchAssignAssigns(data, fk)
    /\ now' = t
    /\ UNCHANGED <<payments, sess, discounts, reminders, catalog, aivars>>

BatchAssignFees ==
    \E data \in BatchFeesAssign, fk \in ForeignKeys, t \in ClockReadings :
        batch_assign_fees(data, fk, t)

\* the three batch operations
BatchNext ==
    \/ BatchAssignFees
    \/ CarryForward
    \/ SendReminders

BatchSpec == Init /\ [][BatchNext]_vars

\* ------------------------------------------- two schools on one platform
\* a platform with two tenants; the fees master, the discounts and the
\* students are those of school 1
TenantInit ==
    /\ schools = Schools \cup {2}
    /\ masters = FeesMasters
    /\ call = NoCall
    /\ extract = NoExtract
    /\ discounts = FeesDiscounts
    /\ reminders = <<>>
    /\ assigns = <<>>
    /\ payments = <<>>
    /\ now = 0
    /\ sess = [w \in Workers |-> IdleSession]

\* the operations that take school_id from the request body
TenantNext ==
    \/ QuickAssignFees
    \/ CollectPayment
    \/ CreateOfflinePayment

TenantSpec == TenantInit /\ [][TenantNext]_vars

\* --------------------------------------- fees masters of two academic years
\* a school that has a fees master for each of two years
CarryInit ==
    /\ schools = Schools
    /\ masters = FeesMasters
                 \o <<[school_id |-> 1, amount |-> 1, academic_year |-> "2025",
                       term |-> "T1", due_date |-> 1]>>
    /\ call = NoCall
    /\ extract = NoExtract
    /\ discounts = FeesDiscounts
    /\ reminders = <<>>
    /\ assigns = <<>>
    /\ payments = <<>>
    /\ now = 0
    /\ sess = [w \in Workers |-> IdleSession]

\* assignment, direct collection and carry-forward
CarryNext ==
    \/ QuickAssignFees
    \/ CollectPayment
    \/ CarryForward

CarrySpec == CarryInit /\ [][CarryNext]_vars

\* ================================================== services/ai_service.py
\* text is a sequence of one-character strings
Whitespace == {" ", "\n", "\t", "\r"}

\* str.strip(): leading and trailing whitespace removed
RECURSIVE LStrip(_)
LStrip(text) ==
    IF text # <<>> /\ Head(text) \in Whitespace THEN LStrip(Tail(text)) ELSE text

RECURSIVE RStrip(_)
RStrip(text) ==
    IF text # <<>> /\ text[Len(text)] \in Whitespace
      THEN RStrip(SubSeq(text, 1, Len(text) - 1)) ELSE text

Strip(text) == RStrip(LStrip(text))

\* ------------------------------------------------------ _get_providers
\* the provider blocks of _get_providers in their order: the name appended and
\* the settings attributes read for the key and for the model
ProviderTable ==
    <<[name |-> "Claude", key |-> "ANTHROPIC_API_KEY", model |-> "CLAUDE_MODEL"],
      [name |-> "OpenAI", key |-> "OPENAI_API_KEY", model |-> "OPENAI_MODEL"],
      [name |-> "xAI", key |-> "XAI_API_KEY", model |-> "XAI_MODEL"],
      [name |-> "Gemini", key |-> "GEMINI_API_KEY", model |-> "GEMINI_MODEL"],
      [name |-> "DeepSeek", key |-> "DEEPSEEK_API_KEY", model |-> "DEEPSEEK_MODEL"]>>

\* the attribute every _call_<provider> reads while it builds its request
MaxTokensField == "AI_MAX_TOKENS"

\* the fields class Settings declares, of those ai_service.py reads
SettingsFields == {"ANTHROPIC_API_KEY", "CLAUDE_MODEL"}

\* the environment (.env): a value for each key variable, "" when it is empty
\* or not set
Environments == [{ProviderTable[i].key : i \in DOMAIN ProviderTable} -> {"", "sk"}]

\* Settings(): a declared field takes the environment's value or its default;
\* a variable that is no declared field gives no attribute
LoadSettings(env) ==
    [f \in SettingsFields |-> IF f \in DOMAIN env THEN env[f] ELSE "claude-3-sonnet-20240229"]

\* _get_providers from block i on: the names appended, or the AttributeError
\* of the first read of an attribute the settings object does not have
RECURSIVE GetProvidersFrom(_, _)
GetProvidersFrom(settings, i) ==
    IF i > Len(ProviderTable) THEN [raised |-> "", providers |-> <<>>]
    ELSE LET p == ProviderTable[i] IN
         IF p.key \notin DOMAIN settings
           THEN [raised |-> "AttributeError", providers |-> <<>>]
         ELSE IF settings[p.key] = ""
           THEN GetProvidersFrom(settings, i + 1)
         ELSE IF p.model \notin DOMAIN settings
           THEN [raised |-> "AttributeError", providers |-> <<>>]
         ELSE LET rest == GetProvidersFrom(settings, i + 1) IN
              IF rest.raised # "" THEN rest
              ELSE [raised |-> "", providers |-> <<p.name>> \o rest.providers]

\* ------------------------------------------------------------ _call_ai
\* what the endpoint of a provider does with a request: it answers, or
\* raise_for_status raises
ProviderAnswers == {"ok", "HTTPStatusError"}

\* the text in the body of the answer of a provider
AnswerBody(name) == <<" ", name, "\n">>

\* _call_<provider>: the max_tokens attribute is read before the request is
\* sent; raise_for_status and transport errors raise; the text is stripped
CallProvider(settings, name, answers) ==
    IF MaxTokensField \notin DOMAIN settings
      THEN [ok |-> FALSE, sent |-> FALSE, text |-> <<>>, error |-> "AttributeError"]
    ELSE IF answers[name] = "ok"
      THEN [ok |-> TRUE, sent |-> TRUE, text |-> Strip(AnswerBody(name)), error |-> ""]
    ELSE [ok |-> FALSE, sent |-> TRUE, text |-> <<>>, error |-> answers[name]]

\* the outcome of a call: what it returns or raises, the providers it tried,
\* the requests it sent and the entries of the error message
CallOutcome(kind, error, text, tried, sent, entries) ==
    [kind |-> kind, error |-> error, text |-> text, tried |-> tried,
     sent |-> sent, entries |-> entries]

\* for name, url, api_key, model in providers: try ... except Exception
RECURSIVE TryProviders(_, _, _, _, _, _)
TryProviders(settings, providers, answers, tried, sent, errors) ==
    IF providers = <<>>
      THEN CallOutcome("raise", "All AI providers failed", <<>>, tried, sent, errors)
    ELSE LET name == Head(providers)
             r == CallProvider(settings, name, answers)
             nowSent == IF r.sent THEN Append(sent, name) ELSE sent IN
         IF r.ok
           THEN CallOutcome("return", "", r.text, Append(tried, name), nowSent, errors)
         ELSE TryProviders(settings, Tail(providers), answers, Append(tried, name),
                           nowSent, Append(errors, <<name, r.error>>))

CallAIOutcome(settings, answers) ==
    LET g == GetProvidersFrom(settings, 1) IN
    IF g.raised # ""
      THEN CallOutcome("raise", g.raised, <<>>, <<>>, <<>>, <<>>)
    ELSE IF g.providers = <<>>
      THEN CallOutcome("raise", "No AI providers configured", <<>>, <<>>, <<>>, <<>>)
    ELSE TryProviders(settings, g.providers, answers, <<>>, <<>>, <<>>)

\* one call of _call_ai under an environment and the providers' behaviour
call_ai(env, answers) ==
    /\ call' = [pc |-> "done", env |-> env, answers |-> answers,
                outcome |-> CallAIOutcome(LoadSettings(env), answers)]
    /\ UNCHANGED <<assigns, payments, now, sess, discounts, reminders, catalog, extract>>

CallAI ==
    \E env \in Environments, answers \in [{ProviderTable[i].name : i \in DOMAIN ProviderTable} -> ProviderAnswers] :
        call_ai(env, answers)

CallSpec == Init /\ [][CallAI]_vars

\* -------------------------------------------------------- _extract_json
\* the first place from i on whose character is not whitespace (Len + 1:
\* none); re \s and the whitespace of JSON are the same over these texts
RECURSIVE SkipSpace(_, _)
SkipSpace(text, i) ==
    IF i <= Len(text) /\ text[i] \in Whitespace THEN SkipSpace(text, i + 1) ELSE i

\* the backtick character, written as a word of its own in the texts
Backtick == "BACKTICK"

\* three backticks at place p
FenceAt(text, p) ==
    /\ p >= 1 /\ p + 2 <= Len(text)
    /\ text[p] = Backtick /\ text[p + 1] = Backtick /\ text[p + 2] = Backtick

\* \s*\n at place q: the place after the last newline of the whitespace run
\* that starts at q, 0 when the run has none
AfterSpaceNewline(text, q) ==
    LET r == SkipSpace(text, q)
        nl == {n \in q .. (r - 1) : text[n] = "\n"}
    IN IF nl = {} THEN 0 ELSE (CHOOSE n \in nl : \A m \in nl : m <= n) + 1

\* the first closing fence at or after c, 0 when there is none
ClosingFence(text, c) ==
    LET ends == {e \in c .. Len(text) : FenceAt(text, e)}
    IN IF ends = {} THEN 0 ELSE CHOOSE e \in ends : \A m \in ends : e <= m

\* the pattern fence (?:json)?\s*\n(.*?) fence tried at place p: the bounds
\* of group 1
\* (from = 0: no match at p)
FenceMatchAt(text, p) ==
    IF ~FenceAt(text, p) THEN [from |-> 0, to |-> 0]
    ELSE LET tagged == IF /\ p + 6 <= Len(text)
                            /\ SubSeq(text, p + 3, p + 6) = <<"j", "s", "o", "n">>
                         THEN AfterSpaceNewline(text, p + 7) ELSE 0
             c == IF tagged # 0 /\ ClosingFence(text, tagged) # 0
                    THEN tagged ELSE AfterSpaceNewline(text, p + 3)
         IN IF c = 0 \/ ClosingFence(text, c) = 0 THEN [from |-> 0, to |-> 0]
            ELSE [from |-> c, to |-> ClosingFence(text, c) - 1]

\* re.search: the leftmost place with a match
CodeBlock(text) ==
    LET hits == {p \in 1 .. Len(text) : FenceMatchAt(text, p).from # 0}
    IN IF hits = {} THEN [from |-> 0, to |-> 0]
       ELSE FenceMatchAt(text, CHOOSE p \in hits : \A m \in hits : p <= m)

\* if code_block: text = code_block.group(1)
FencedContent(text) ==
    IF CodeBlock(text).from = 0 THEN text
    ELSE SubSeq(text, CodeBlock(text).from, CodeBlock(text).to)

\* the loop over range(start, len(text)): the place after the brace that
\* brings depth back to 0, start itself when none does
RECURSIVE BraceEnd(_, _, _, _)
BraceEnd(text, start, i, depth) ==
    IF i > Len(text) THEN start
    ELSE IF text[i] = "{" THEN BraceEnd(text, start, i + 1, depth + 1)
    ELSE IF text[i] = "}"
      THEN IF depth - 1 = 0 THEN i + 1 ELSE BraceEnd(text, start, i + 1, depth - 1)
    ELSE BraceEnd(text, start, i + 1, depth)

\* if "{" in text: text = text[start:end]
BraceSlice(text) ==
    IF \A i \in DOMAIN text : text[i] # "{" THEN text
    ELSE LET start == CHOOSE i \in DOMAIN text :
                          text[i] = "{" /\ \A j \in 1 .. (i - 1) : text[j] # "{"
         IN SubSeq(text, start, BraceEnd(text, start, start, 0) - 1)

\* re.sub(r",\s*([}\]])", r"\1", text)
RECURSIVE StripCommasFrom(_, _)
StripCommasFrom(text, i) ==
    IF i > Len(text) THEN <<>>
    ELSE LET r == SkipSpace(text, i + 1) IN
         IF text[i] = "," /\ r <= Len(text) /\ text[r] \in {"}", "]"}
           THEN <<text[r]>> \o StripCommasFrom(text, r + 1)
           ELSE <<text[i]>> \o StripCommasFrom(text, i + 1)

\* re.sub(r"[\x00-\x1f\x7f]", ...): newline, return and tab become a space
ReplaceControls(text) ==
    [i \in DOMAIN text |-> IF text[i] \in {"\n", "\r", "\t"} THEN " " ELSE text[i]]

\* ---------------------------------------------------------- json.loads
\* A parse step gives [ok, pos, out]: whether it matched, the place after the
\* match, and the value as compact JSON text (no whitespace between tokens).
\* Numbers are integers; \u escapes and duplicate keys do not occur in the
\* texts.
Digits == {"0", "1", "2", "3", "4", "5", "6", "7", "8", "9"}

ParseFail == [ok |-> FALSE, pos |-> 0, out |-> <<>>]

Parsed(pos, out) == [ok |-> TRUE, pos |-> pos, out |-> out]

\* the place of the quote that closes the string whose content starts at i,
\* 0 when the string does not end; a backslash takes the next character
RECURSIVE StringEnd(_, _)
StringEnd(text, i) ==
    IF i > Len(text) THEN 0
    ELSE IF text[i] = "\"" THEN i
    ELSE IF text[i] = "\\"
      THEN IF i + 1 <= Len(text) /\ text[i + 1] \in {"\"", "\\", "/", "b", "f", "n", "r", "t"}
             THEN StringEnd(text, i + 2) ELSE 0
    ELSE StringEnd(text, i + 1)

\* a string whose opening quote is at i
ParseString(text, i) ==
    IF i > Len(text) \/ text[i] # "\"" \/ StringEnd(text, i + 1) = 0 THEN ParseFail
    ELSE Parsed(StringEnd(text, i + 1) + 1, SubSeq(text, i, StringEnd(text, i + 1)))

RECURSIVE DigitsEnd(_, _)
DigitsEnd(text, i) ==
    IF i <= Len(text) /\ text[i] \in Digits THEN DigitsEnd(text, i + 1) ELSE i

\* -?(0|[1-9][0-9]*)
ParseNumber(text, i) ==
    LET d == IF i <= Len(text) /\ text[i] = "-" THEN i + 1 ELSE i IN
    IF d > Len(text) \/ text[d] \notin Digits THEN ParseFail
    ELSE IF text[d] = "0" THEN Parsed(d + 1, SubSeq(text, i, d))
    ELSE Parsed(DigitsEnd(text, d), SubSeq(text, i, DigitsEnd(text, d) - 1))

\* true, false, null
ParseLiteral(text, i, word) ==
    IF i + Len(word) - 1 <= Len(text) /\ SubSeq(text, i, i + Len(word) - 1) = word
      THEN Parsed(i + Len(word), word) ELSE ParseFail

RECURSIVE ParseValue(_, _)
RECURSIVE ParseMembers(_, _)
RECURSIVE ParseElements(_, _)

\* "key" : value ("," "key" : value)* "}" from the place of the first key on
ParseMembers(text, i) ==
    LET k == ParseString(text, i) IN
    IF ~k.ok THEN ParseFail
    ELSE LET c == SkipSpace(text, k.pos) IN
         IF c > Len(text) \/ text[c] # ":" THEN ParseFail
         ELSE LET v == ParseValue(text, SkipSpace(text, c + 1)) IN
              IF ~v.ok THEN ParseFail
              ELSE LET e == SkipSpace(text, v.pos) IN
                   IF e > Len(text) THEN ParseFail
                   ELSE IF text[e] = "}"
                     THEN Parsed(e + 1, k.out \o <<":">> \o v.out \o <<"}">>)
                   ELSE IF text[e] = ","
                     THEN LET rest == ParseMembers(text, SkipSpace(text, e + 1)) IN
                          IF ~rest.ok THEN ParseFail
                          ELSE Parsed(rest.pos, k.out \o <<":">> \o v.out \o <<",">> \o rest.out)
                   ELSE ParseFail

\* value ("," value)* "]" from the place of the first element on
ParseElements(text, i) ==
    LET v == ParseValue(text, i) IN
    IF ~v.ok THEN ParseFail
    ELSE LET e == SkipSpace(text, v.pos) IN
         IF e > Len(text) THEN ParseFail
         ELSE IF text[e] = "]" THEN Parsed(e + 1, v.out \o <<"]">>)
         ELSE IF text[e] = ","
           THEN LET rest == ParseElements(text, SkipSpace(text, e + 1)) IN
                IF ~rest.ok THEN ParseFail
                ELSE Parsed(rest.pos, v.out \o <<",">> \o rest.out)
         ELSE ParseFail

ParseValue(text, i) ==
    IF i > Len(text) THEN ParseFail
    ELSE IF text[i] = "\"" THEN ParseString(text, i)
    ELSE IF text[i] = "{"
      THEN LET m == SkipSpace(text, i + 1) IN
           IF m <= Len(text) /\ text[m] = "}" THEN Parsed(m + 1, <<"{", "}">>)
           ELSE LET r == ParseMembers(text, m) IN
                IF r.ok THEN Parsed(r.pos, <<"{">> \o r.out) ELSE ParseFail
    ELSE IF text[i] = "["
      THEN LET m == SkipSpace(text, i + 1) IN
           IF m <= Len(text) /\ text[m] = "]" THEN Parsed(m + 1, <<"[", "]">>)
           ELSE LET r == ParseElements(text, m) IN
                IF r.ok THEN Parsed(r.pos, <<"[">> \o r.out) ELSE ParseFail
    ELSE IF text[i] = "t" THEN ParseLiteral(text, i, <<"t", "r", "u", "e">>)
    ELSE IF text[i] = "f" THEN ParseLiteral(text, i, <<"f", "a", "l", "s", "e">>)
    ELSE IF text[i] = "n" THEN ParseLiteral(text, i, <<"n", "u", "l", "l">>)
    ELSE ParseNumber(text, i)

\* json.loads(text): one value with whitespace around it and nothing else;
\* ok = FALSE stands for JSONDecodeError
JsonLoads(text) ==
    LET v == ParseValue(text, SkipSpace(text, 1)) IN
    IF v.ok /\ SkipSpace(text, v.pos) > Len(text)
      THEN [ok |-> TRUE, value |-> v.out]
      ELSE [ok |-> FALSE, value |-> <<>>]

\* --------------------------------------------- the last-resort re.sub
\* (.*?) from p up to the lookahead (a double quote, then a comma, whitespace
\* or a closing brace): the least end e >= lo of a match that starts at p (the
\* match is text[p .. e - 1]; . takes no newline), 0 when there is none
QuoteMatchEnd(text, p, lo) ==
    LET ends == {e \in lo .. (Len(text) - 1) :
                    /\ text[e] = "\""
                    /\ text[e + 1] \in ({",", "}"} \cup Whitespace)
                    /\ \A n \in p .. (e - 1) : text[n] # "\n"}
    IN IF ends = {} THEN 0 ELSE CHOOSE e \in ends : \A m \in ends : e <= m

\* m.group().replace: a backslash is put before every double quote
RECURSIVE EscapeQuotes(_)
EscapeQuotes(text) ==
    IF text = <<>> THEN <<>>
    ELSE (IF Head(text) = "\"" THEN <<"\\", "\"">> ELSE <<Head(text)>>)
         \o EscapeQuotes(Tail(text))

\* re.sub from place i on: a match starts after the lookbehind (colon, space,
\* double quote); after an empty match the next match at the same place must
\* not be empty
RECURSIVE FixQuotesFrom(_, _, _)
FixQuotesFrom(text, i, mustAdvance) ==
    LET starts == {p \in i .. (Len(text) + 1) :
                      /\ p >= 4
                      /\ SubSeq(text, p - 3, p - 1) = <<":", " ", "\"">>
                      /\ QuoteMatchEnd(text, p, IF p = i /\ mustAdvance THEN p + 1 ELSE p) # 0}
    IN IF starts = {} THEN SubSeq(text, i, Len(text))
       ELSE LET p == CHOOSE s \in starts : \A m \in starts : s <= m
                e == QuoteMatchEnd(text, p, IF p = i /\ mustAdvance THEN p + 1 ELSE p)
            IN SubSeq(text, i, p - 1) \o EscapeQuotes(SubSeq(text, p, e - 1))
               \o FixQuotesFrom(text, e, e = p)

\* ------------------------------------------------- _extract_json, whole
\* the text handed to json.loads
Cleaned(text) == ReplaceControls(StripCommasFrom(BraceSlice(FencedContent(text)), 1))

\* the value returned, or JSONDecodeError raised by the second json.loads
ExtractJSON(text) ==
    IF JsonLoads(Cleaned(text)).ok
      THEN [kind |-> "return", value |-> JsonLoads(Cleaned(text)).value]
    ELSE IF JsonLoads(FixQuotesFrom(Cleaned(text), 1, FALSE)).ok
      THEN [kind |-> "return", value |-> JsonLoads(FixQuotesFrom(Cleaned(text), 1, FALSE)).value]
    ELSE [kind |-> "raise", value |-> <<>>]

\* ------------------------------------------------ the texts extracted
\* JSON documents an answer may hold: objects (flat, nested, with a list, with
\* a brace character inside a string value), a list of objects, and an object
\* whose closing brace is missing
DocNames == {"flat", "nested", "list", "closer", "opener", "objects", "open"}

\* a document as text, plainly or with a trailing comma before a closing
\* brace or bracket (the unclosed object has no place for one)
Doc(name, comma) ==
    IF name = "flat"
      THEN IF comma THEN <<"{", "\"", "a", "\"", ":", " ", "1", ",", "}">>
           ELSE <<"{", "\"", "a", "\"", ":", " ", "1", "}">>
    ELSE IF name = "nested"
      THEN IF comma THEN <<"{", "\"", "a", "\"", ":", " ", "{", "\"", "b", "\"", ":", " ", "2", ",", " ", "}", "}">>
           ELSE <<"{", "\"", "a", "\"", ":", " ", "{", "\"", "b", "\"", ":", " ", "2", "}", "}">>
    ELSE IF name = "list"
      THEN IF comma THEN <<"{", "\"", "a", "\"", ":", " ", "[", "1", ",", " ", "2", ",", "]", "}">>
           ELSE <<"{", "\"", "a", "\"", ":", " ", "[", "1", ",", " ", "2", "]", "}">>
    ELSE IF name = "closer"
      THEN IF comma THEN <<"{", "\"", "a", "\"", ":", " ", "\"", "}", "\"", ",", "}">>
           ELSE <<"{", "\"", "a", "\"", ":", " ", "\"", "}", "\"", "}">>
    ELSE IF name = "opener"
      THEN IF comma THEN <<"{", "\"", "a", "\"", ":", " ", "\"", "{", "\"", ",", "}">>
           ELSE <<"{", "\"", "a", "\"", ":", " ", "\"", "{", "\"", "}">>
    ELSE IF name = "objects"
      THEN IF comma THEN <<"[", "{", "\"", "a", "\"", ":", " ", "1", ",", "}", ",", " ", "{", "\"", "b", "\"", ":", " ", "2", "}", "]">>
           ELSE <<"[", "{", "\"", "a", "\"", ":", " ", "1", "}", ",", " ", "{", "\"", "b", "\"", ":", " ", "2", "}", "]">>
    ELSE <<"{", "\"", "a", "\"", ":", " ", "1">>

OpeningFence(kind) ==
    IF kind = "plain" THEN <<Backtick, Backtick, Backtick, "\n">>
    ELSE IF kind = "json" THEN <<Backtick, Backtick, Backtick, "j", "s", "o", "n", "\n">>
    ELSE <<>>

EndingFence(kind) == IF kind = "none" THEN <<>> ELSE <<"\n", Backtick, Backtick, Backtick>>

\* the answers: a document, plain or with a trailing comma; prose before it
\* (none, words, words with braces of their own) and after it; bare, in a
\* fence, or in a fence tagged json
ExtractInputs ==
    [doc : DocNames, comma : BOOLEAN,
     pre : {<<>>, <<"H", "i", ":", " ">>, <<"{", "x", "}", " ">>},
     post : {<<>>, <<" ", "o", "k">>},
     fence : {"none", "plain", "json"}]

\* the raw text of an answer
RawText(input) ==
    input.pre \o OpeningFence(input.fence) \o Doc(input.doc, input.comma)
    \o EndingFence(input.fence) \o input.post

\* one call of _extract_json on the text of an answer
extract_json(input) ==
    /\ extract' = [pc |-> "done", input |-> input, text |-> RawText(input),
                   outcome |-> ExtractJSON(RawText(input))]
    /\ UNCHANGED <<assigns, payments, now, sess, discounts, reminders, catalog, call>>

ExtractJson == \E input \in ExtractInputs : extract_json(input)

ExtractSpec == Init /\ [][ExtractJson]_vars

\* ================================================================ claims
\* the three-way status rule of the data model
StatusRule(a) ==
    IF a.balance <= 0 THEN "paid"
    ELSE IF 0 < a.paid_amount /\ a.paid_amount < a.total_amount THEN "partial"
    ELSE "unpaid"

\* C1: in every reachable state every FeesAssign row has balance >= 0.
BalanceNeverNegative == \A i \in DOMAIN assigns : assigns[i].balance >= 0

\* C2: in every reachable state every FeesAssign row has
\* balance = total_amount - paid_amount.
BalanceIsTotalMinusPaid ==
    \A i \in DOMAIN assigns :
        assigns[i].balance = assigns[i].total_amount - assigns[i].paid_amount

\* C2 witness: a partly paid row beside a carried-forward one.
PartlyPaidAndCarried ==
    \E i, j \in DOMAIN assigns :
        /\ assigns[i].paid_amount > 0
        /\ assigns[i].balance > 0
        /\ assigns[j].is_carried_forward

\* C3: in every reachable state every row's status is the one the three-way
\* rule gives for its balance, paid_amount and total_amount.
StatusFollowsRule == \A i \in DOMAIN assigns : assigns[i].status = StatusRule(assigns[i])

\* C4: a collect request that commits adds its amount to the paid_amount the
\* table holds at that moment and takes it from the balance the table holds,
\* and its amount does not exceed that balance: no update of another request
\* is lost and the two together are not accepted beyond the balance.
CollectsAreSerialized ==
    [][\A w \in Workers :
          (sess[w].pc = "loaded" /\ sess'[w].pc = "idle"
             /\ Len(payments') = Len(payments) + 1)
          => LET aid == sess[w].data.fees_assign_id
                 amount == sess[w].data.amount
             IN /\ assigns'[aid].paid_amount = assigns[aid].paid_amount + amount
                /\ assigns'[aid].balance = assigns[aid].balance - amount
                /\ amount <= assigns[aid].balance]_vars

\* C5: a collect request whose amount exceeds the assignment's balance, or whose
\* assignment is already 'paid', is answered with a validation error and
\* commits the tables as they were.
CollectRejectsOverpayment ==
    \A data \in PaymentData, t \in ClockReadings :
        LET aid == data.fees_assign_id IN
        (aid \in DOMAIN assigns
           /\ (data.amount > assigns[aid].balance \/ assigns[aid].status = "paid"))
        => /\ CollectOutcome(data, t).code \in {400, 422}
           /\ CollectAssigns(data, t) = assigns
           /\ CollectPayments(data, t) = payments

\* C5 witness: a partly paid row that a request of MaxAmount would overpay, beside
\* a row that payments have brought to 'paid'.
OverpaymentPossible ==
    \E i, j \in DOMAIN assigns :
        /\ assigns[i].paid_amount > 0
        /\ 0 < assigns[i].balance /\ assigns[i].balance < MaxAmount
        /\ assigns[j].status = "paid" /\ assigns[j].paid_amount > 0

\* C6: an accepted collect request appends exactly one payment row, for that
\* assignment, with is_verified = TRUE, and changes that assignment alone:
\* paid_amount up by the amount, balance down by it, status by the rule.
CollectEffect ==
    \A data \in PaymentData, t \in ClockReadings :
        CollectOutcome(data, t).code = 201
        => LET aid == data.fees_assign_id
               P == CollectPayments(data, t)
               A == CollectAssigns(data, t)
           IN /\ Len(P) = Len(payments) + 1
              /\ SubSeq(P, 1, Len(payments)) = payments
              /\ P[Len(P)].fees_assign_id = aid
              /\ P[Len(P)].amount = data.amount
              /\ P[Len(P)].is_verified = TRUE
              /\ Len(A) = Len(assigns)
              /\ \A j \in DOMAIN assigns : j # aid => A[j] = assigns[j]
              /\ A[aid].paid_amount = assigns[aid].paid_amount + data.amount
              /\ A[aid].balance = assigns[aid].balance - data.amount
              /\ A[aid].status = StatusRule(A[aid])
              /\ A[aid].total_amount = assigns[aid].total_amount

\* C6 witness: a directly collected payment has left its assignment 'partial'.
CollectedPartial ==
    \E p \in DOMAIN payments :
        /\ payments[p].is_verified
        /\ payments[p].payment_method = "cash"
        /\ assigns[payments[p].fees_assign_id].status = "partial"
        /\ assigns[payments[p].fees_assign_id].paid_amount = payments[p].amount

\* C7: for an assignment with balance b > 0 and status not 'paid', a collect
\* request of its student with amount exactly b is accepted and leaves the
\* balance 0 and the status 'paid'.
CollectFullBalanceSettles ==
    \A data \in PaymentData, t \in ClockReadings :
        LET aid == data.fees_assign_id IN
        (aid \in DOMAIN assigns
           /\ assigns[aid].balance > 0
           /\ assigns[aid].status # "paid"
           /\ data.student_id = assigns[aid].student_id
           /\ data.amount = assigns[aid].balance)
        => /\ CollectOutcome(data, t).code = 201
           /\ CollectAssigns(data, t)[aid].balance = 0
           /\ CollectAssigns(data, t)[aid].status = "paid"

\* C8: once a verify call has been made on a payment (its verified_at is set),
\* every later verify call on it is refused as already verified and leaves it
\* as it is, whatever the flag of the first call; and the payment, once
\* verified, stays verified, so its amount is taken from the balance once.
VerifyOnlyOnce ==
    [][\A pid \in DOMAIN payments :
          /\ payments[pid].verified_at # -1
             => /\ \A data \in VerifyData :
                       VerifyOutcome(pid, data) = Outcome(400, "Payment already verified")
                /\ payments'[pid] = payments[pid]
          /\ payments[pid].is_verified => payments'[pid].is_verified]_vars

\* C9: an accepted offline bank payment appends one payment row with
\* is_verified = FALSE and commits the assignments as they were (a refused one
\* commits nothing); the payment reaches its assignment only through a verify
\* call on it that approves: such a call adds the amount to the linked row,
\* and a verify call that rejects or is refused changes no assignment.
OfflineDefersBalance ==
    /\ \A data \in PaymentData, t \in ClockReadings :
          LET P == OfflinePayments(data, t) IN
          /\ OfflineAssigns(data, t) = assigns
          /\ IF OfflineOutcome(data, t).code = 201
               THEN /\ Len(P) = Len(payments) + 1
                    /\ SubSeq(P, 1, Len(payments)) = payments
                    /\ P[Len(P)].fees_assign_id = data.fees_assign_id
                    /\ P[Len(P)].amount = data.amount
                    /\ P[Len(P)].is_verified = FALSE
               ELSE P = payments
    /\ \A pid \in DOMAIN payments, data \in VerifyData :
          LET aid == payments[pid].fees_assign_id
              A == VerifyAssigns(pid, data)
          IN IF ~payments[pid].is_verified /\ data.is_verified
               THEN A[aid].paid_amount = assigns[aid].paid_amount + payments[pid].amount
               ELSE A = assigns

\* C9 witness: a pending offline payment beside its untouched assignment.
PendingOfflinePayment ==
    \E p \in DOMAIN payments :
        /\ ~payments[p].is_verified
        /\ payments[p].verified_at = -1
        /\ assigns[payments[p].fees_assign_id].paid_amount = 0
        /\ assigns[payments[p].fees_assign_id].balance
             = assigns[payments[p].fees_assign_id].total_amount

\* C10: an accepted verify call with approve = FALSE leaves every assignment as
\* it was; with approve = TRUE it changes the linked assignment alone, to what
\* the update of a direct collection of the payment's amount makes of it.
VerifyAppliesLikeCollect ==
    \A pid \in DOMAIN payments, data \in VerifyData :
        (VerifyOutcome(pid, data).code = 200
           /\ payments[pid].fees_assign_id \in DOMAIN assigns)
        => LET aid == payments[pid].fees_assign_id
               amount == payments[pid].amount
               A == VerifyAssigns(pid, data)
           IN IF data.is_verified
                THEN /\ Len(A) = Len(assigns)
                     /\ \A j \in DOMAIN assigns : j # aid => A[j] = assigns[j]
                     /\ A[aid] = CollectApply(assigns[aid], amount)
                     /\ A[aid].paid_amount = assigns[aid].paid_amount + amount
                     /\ A[aid].balance = assigns[aid].balance - amount
                ELSE A = assigns

\* C10 witness: one payment approved and one rejected by verify calls.
ApprovedAndRejected ==
    \E p, q \in DOMAIN payments :
        /\ payments[p].verified_at # -1 /\ payments[p].is_verified
        /\ payments[q].verified_at # -1 /\ ~payments[q].is_verified

\* the rows of table A that assign master_id to student sid and are not carried forward
AssignedRows(A, sid, master_id) ==
    {j \in DOMAIN A : /\ A[j].student_id = sid
                      /\ A[j].fees_master_id = master_id
                      /\ A[j].is_carried_forward = FALSE}

\* C11: in every reachable state a (student, fees master) pair has at most one
\* row with is_carried_forward = FALSE.
OneAssignPerStudentMaster ==
    \A sid \in Students, master_id \in DOMAIN masters :
        Cardinality(AssignedRows(assigns, sid, master_id)) <= 1

\* C12: an accepted quick-assign call leaves every student it names with exactly
\* one row for the master that is not carried forward; the rows it returns are
\* for students that had none, and when every student it names already has one
\* (as after an earlier call for the same students) it creates and returns nothing.
QuickAssignIdempotent ==
    \A data \in QuickFeesAssign :
        QuickAssignOutcome(data).code = 201
        => LET S == QuickAssignStudents(data)
               R == QuickAssignResult(data)
               A == QuickAssignAssigns(data)
               m == data.fees_master_id
           IN /\ \A i \in DOMAIN S : Cardinality(AssignedRows(A, S[i], m)) = 1
              /\ \A k \in DOMAIN R : ~AlreadyAssigned(R[k].student_id, m)
              /\ (\A i \in DOMAIN S : AlreadyAssigned(S[i], m)) => (R = <<>> /\ A = assigns)

\* C13: the rows an accepted quick-assign call creates have total_amount equal
\* to the master amount A without a discount, to A * (1 - p/100) rounded to the
\* minor unit with a percentage discount p, and to max(0, A - f) with a fixed
\* discount f; in every case 0 <= total_amount <= A.
DiscountedTotalInRange ==
    \A data \in QuickFeesAssign :
        QuickAssignOutcome(data).code = 201
        => LET R == QuickAssignResult(data)
               A == masters[data.fees_master_id].amount
               d == data.discount_id
           IN \A k \in DOMAIN R :
                 LET total == R[k].total_amount IN
                 /\ 0 <= total /\ total <= A
                 /\ d = 0 => total = A
                 /\ (d # 0 /\ discounts[d].discount_type = "percentage")
                      => /\ 100 * total - A * (100 - discounts[d].amount) <= 50
                         /\ A * (100 - discounts[d].amount) - 100 * total <= 50
                 /\ (d # 0 /\ discounts[d].discount_type = "fixed")
                      => total = (IF A > discounts[d].amount THEN A - discounts[d].amount ELSE 0)

\* C14: in every state reached through the discount create and update
\* operations every percentage discount has amount <= 100.
PercentageAtMostHundred ==
    \A i \in DOMAIN discounts :
        discounts[i].discount_type = "percentage" => discounts[i].amount <= MaxPercent

\* C15: a carry-forward call appends one row for each row that matches its
\* school, year, term and student filters and has balance > 0, in order: same
\* school, student, master and discount, total_amount = balance = the source's
\* balance, paid_amount 0, status 'unpaid', no due date, is_carried_forward;
\* the rows that were there keep every field and the count reported is the
\* number of rows appended.
CarryForwardEffect ==
    \A data \in FeesCarryForwardRequest :
        LET A == CarryForwardAssigns(data)
            n == Len(assigns)
            M == {i \in DOMAIN assigns :
                    /\ assigns[i].school_id = data.school_id
                    /\ assigns[i].balance > 0
                    /\ masters[assigns[i].fees_master_id].academic_year
                         = data.from_academic_year
                    /\ data.from_term \in {"", masters[assigns[i].fees_master_id].term}
                    /\ (data.student_ids = {} \/ assigns[i].student_id \in data.student_ids)}
        IN /\ Len(A) = n + Cardinality(M)
           /\ SubSeq(A, 1, n) = assigns
           /\ CarryForwardCount(data) = Cardinality(M)
           /\ \A i \in M :
                 LET new == A[n + Cardinality({j \in M : j <= i})] IN
                 /\ new.school_id = assigns[i].school_id
                 /\ new.student_id = assigns[i].student_id
                 /\ new.fees_master_id = assigns[i].fees_master_id
                 /\ new.discount_id = assigns[i].discount_id
                 /\ new.total_amount = assigns[i].balance
                 /\ new.balance = assigns[i].balance
                 /\ new.paid_amount = 0
                 /\ new.status = "unpaid"
                 /\ new.due_date = 0
                 /\ new.is_carried_forward = TRUE

\* C15 witness: a carried-forward row made from a partly paid source, whose
\* total is the source's balance and less than the source's total.
CarriedFromPartlyPaid ==
    \E i, j \in DOMAIN assigns :
        /\ i < j
        /\ ~assigns[i].is_carried_forward /\ assigns[j].is_carried_forward
        /\ assigns[i].status = "partial"
        /\ assigns[j].student_id = assigns[i].student_id
        /\ assigns[j].total_amount = assigns[i].balance
        /\ assigns[j].total_amount < assigns[i].total_amount

\* C16: the stored payments have pairwise different receipt numbers, and no
\* payment request, direct or offline, is refused because of its receipt
\* number, whatever second it is made in.
ReceiptsDistinctNoneRefused ==
    /\ \A i, j \in DOMAIN payments :
          i # j => payments[i].receipt_number # payments[j].receipt_number
    /\ \A data \in PaymentData, t \in ClockReadings :
          /\ CollectOutcome(data, t).code # 500
          /\ OfflineOutcome(data, t).code # 500

\* C17: every stored payment carries the student of the assignment it refers
\* to, and a payment request, direct or offline, that names another student
\* or an assignment whose status is 'paid' is answered with a validation
\* error and stores nothing.
PaymentsMeetPreconditions ==
    /\ \A p \in DOMAIN payments :
          payments[p].student_id = assigns[payments[p].fees_assign_id].student_id
    /\ \A data \in PaymentData, t \in ClockReadings :
          LET aid == data.fees_assign_id IN
          (aid \in DOMAIN assigns
             /\ (data.student_id # assigns[aid].student_id \/ assigns[aid].status = "paid"))
          => /\ CollectOutcome(data, t).code \in {400, 422}
             /\ CollectPayments(data, t) = payments
             /\ OfflineOutcome(data, t).code \in {400, 422}
             /\ OfflinePayments(data, t) = payments

\* C20: no step changes a field of a stored payment other than is_verified,
\* verified_by and verified_at.
PaymentFieldsFrozen ==
    [][\A pid \in DOMAIN payments :
          /\ pid \in DOMAIN payments'
          /\ payments'[pid] = [payments[pid] EXCEPT
                                  !.is_verified = payments'[pid].is_verified,
                                  !.verified_by = payments'[pid].verified_by,
                                  !.verified_at = payments'[pid].verified_at]]_vars

\* C19: a reminder call appends, for every place of its student list and every
\* assignment of that student in the school whose status is 'unpaid' or
\* 'partial', exactly one reminder, and nothing else: none for a 'paid'
\* assignment; the count it reports is the number of such (place, assignment)
\* pairs; the reminders that were there, the assignments and the payments stay
\* as they were.
RemindersPerAssignment ==
    \A data \in FeesReminderCreate :
        LET R == SendRemindersRows(data)
            n == Len(reminders)
            ids == data.student_ids
            Due == {pr \in (DOMAIN ids) \X (DOMAIN assigns) :
                      /\ assigns[pr[2]].student_id = ids[pr[1]]
                      /\ assigns[pr[2]].school_id = data.school_id
                      /\ assigns[pr[2]].status # "paid"}
        IN /\ SubSeq(R, 1, n) = reminders
           /\ Len(R) = n + Cardinality(Due)
           /\ SendRemindersCount(data) = Cardinality(Due)
           /\ \A a \in DOMAIN assigns, sid \in Students :
                 Cardinality({k \in (n + 1) .. Len(R) :
                                R[k].fees_assign_id = a /\ R[k].student_id = sid})
                 = Cardinality({pr \in Due : pr[2] = a /\ ids[pr[1]] = sid})
           /\ SendRemindersAssigns(data) = assigns
           /\ SendRemindersPayments(data) = payments

\* C19 witness: a reminder stored for a 'partial' assignment while the same
\* student has a 'paid' assignment with none.
RemindedPartialNotPaid ==
    \E r \in DOMAIN reminders, a \in DOMAIN assigns :
        /\ assigns[reminders[r].fees_assign_id].status = "partial"
        /\ assigns[a].status = "paid"
        /\ assigns[a].student_id = reminders[r].student_id
        /\ \A q \in DOMAIN reminders : reminders[q].fees_assign_id # a

\* C18: when the row of one student of a quick-assign call cannot be stored,
\* the rows of the other students of the call are stored all the same: after
\* the call every stored student it names has a row for the master.
BatchItemsIsolated ==
    \A data \in BatchFeesAssign, fk \in ForeignKeys :
        QuickAssignOutcome(data).code = 201
        => \A i \in DOMAIN data.student_ids :
              data.student_ids[i] \in Students
              => AssignedRows(BatchAssignAssigns(data, fk), data.student_ids[i],
                              data.fees_master_id) # {}

\* the sum of the amounts of the first n payments that reference assignment
\* aid and have is_verified = TRUE
RECURSIVE VerifiedSum(_, _)
VerifiedSum(aid, n) ==
    IF n = 0 THEN 0
    ELSE VerifiedSum(aid, n - 1)
         + (IF payments[n].fees_assign_id = aid /\ payments[n].is_verified
              THEN payments[n].amount ELSE 0)

\* C26: in every state reached by whole ledger operations the paid_amount of
\* each assignment is the sum of the amounts of the payments that reference it
\* and are verified; pending and rejected payments add nothing.
PaidIsVerifiedSum ==
    \A aid \in DOMAIN assigns :
        assigns[aid].paid_amount = VerifiedSum(aid, Len(payments))

\* C26 witness: an assignment with a verified and an unverified payment, both
\* of a positive amount, and a positive paid_amount.
VerifiedAndPendingPayment ==
    \E p, q \in DOMAIN payments :
        /\ payments[p].fees_assign_id = payments[q].fees_assign_id
        /\ payments[p].is_verified /\ payments[p].amount > 0
        /\ ~payments[q].is_verified /\ payments[q].amount > 0
        /\ assigns[payments[p].fees_assign_id].paid_amount > 0

\* C30: in every step each stored assignment stays stored and only moves
\* forward: its total_amount is unchanged, its paid_amount does not decrease,
\* its balance does not increase, and its status does not go from 'paid' to
\* 'partial' or 'unpaid' nor from 'partial' to 'unpaid'.
AssignsOnlyMoveForward ==
    [][\A aid \in DOMAIN assigns :
          /\ aid \in DOMAIN assigns'
          /\ assigns'[aid].total_amount = assigns[aid].total_amount
          /\ assigns'[aid].paid_amount >= assigns[aid].paid_amount
          /\ assigns'[aid].balance <= assigns[aid].balance
          /\ assigns[aid].status = "paid" => assigns'[aid].status = "paid"
          /\ assigns[aid].status = "partial" => assigns'[aid].status \in {"partial", "paid"}]_vars

\* C30 witness: an assignment that two approved payments moved forward, the
\* second one when it was settled already: it is 'paid' with a balance below
\* zero and a paid_amount above its total.
PaidRowPaidAgain ==
    \E i \in DOMAIN assigns :
        /\ assigns[i].status = "paid"
        /\ assigns[i].balance < 0
        /\ assigns[i].paid_amount > assigns[i].total_amount

\* C29: every assignment that is not 'paid' can be settled by accepted
\* payments: some amount passes the checks the payment operations make against
\* it (strictly positive, not above the balance, row not 'paid'), and paying
\* the whole balance leaves it 'paid'; without such an amount no sequence of
\* accepted payments reaches 'paid'.
EveryRowCanBeSettled ==
    \A aid \in DOMAIN assigns :
        assigns[aid].status # "paid"
        => /\ \E amount \in 1 .. MaxAmount :
                 /\ AmountValid(amount)
                 /\ ~ExceedsBalance(amount, assigns[aid])
                 /\ ~AlreadyPaid(assigns[aid])
           /\ AmountValid(assigns[aid].balance)
           /\ CollectApply(assigns[aid], assigns[aid].balance).status = "paid"

\* C28: in every reachable state each payment has the school_id of the
\* assignment it references, and each assignment has the school_id of its
\* fees master.
TenantConsistent ==
    /\ \A p \in DOMAIN payments :
          payments[p].fees_assign_id \in DOMAIN assigns
          => payments[p].school_id = assigns[payments[p].fees_assign_id].school_id
    /\ \A a \in DOMAIN assigns :
          assigns[a].fees_master_id \in DOMAIN masters
          => assigns[a].school_id = masters[assigns[a].fees_master_id].school_id

\* the rows of table A that a carry-forward call with body data selects
CarrySources(A, data) == {i \in DOMAIN A : CarryForwardMatches(A[i], data)}

\* the sum of the balances of the rows K of table A
RECURSIVE BalanceSum(_, _)
BalanceSum(A, K) ==
    IF K = {} THEN 0
    ELSE LET i == CHOOSE x \in K : TRUE IN A[i].balance + BalanceSum(A, K \ {i})

\* all the rows of table A of the students that have a row selected by data
AffectedRows(A, data) ==
    {i \in DOMAIN A : \E j \in CarrySources(A, data) : A[j].student_id = A[i].student_id}

\* the table after a second identical carry-forward call
CarriedTwice(data) ==
    CarryForwardAssigns(data) \o CarryForwardCreated(CarryForwardAssigns(data), data)

\* C27 (as stated): two consecutive identical carry-forward calls over n
\* selected rows append n rows and then 2n rows, and the sum of the balances
\* of all the rows of the affected students doubles with each call.
CarryForwardDoublesStudentBalances ==
    \A data \in FeesCarryForwardRequest :
        LET n == Cardinality(CarrySources(assigns, data)) IN
        /\ Len(CarryForwardAssigns(data)) = Len(assigns) + n
        /\ Len(CarriedTwice(data)) = Len(CarryForwardAssigns(data)) + 2 * n
        /\ BalanceSum(CarryForwardAssigns(data), AffectedRows(CarryForwardAssigns(data), data))
             = 2 * BalanceSum(assigns, AffectedRows(assigns, data))
        /\ BalanceSum(CarriedTwice(data), AffectedRows(CarriedTwice(data), data))
             = 2 * BalanceSum(CarryForwardAssigns(data), AffectedRows(CarryForwardAssigns(data), data))

\* C27 (amended): two consecutive identical carry-forward calls over n
\* selected rows append n rows and then 2n rows, the rows appended by the
\* first call being selected again whatever their is_carried_forward, and the
\* sum of the balances of the rows the call selects doubles with each call.
CarryForwardDoublesSelectedBalances ==
    \A data \in FeesCarryForwardRequest :
        LET n == Cardinality(CarrySources(assigns, data)) IN
        /\ Len(CarryForwardAssigns(data)) = Len(assigns) + n
        /\ Len(CarriedTwice(data)) = Len(CarryForwardAssigns(data)) + 2 * n
        /\ \A i \in (Len(assigns) + 1) .. Len(CarryForwardAssigns(data)) :
              i \in CarrySources(CarryForwardAssigns(data), data)
        /\ BalanceSum(CarryForwardAssigns(data), CarrySources(CarryForwardAssigns(data), data))
             = 2 * BalanceSum(assigns, CarrySources(assigns, data))
        /\ BalanceSum(CarriedTwice(data), CarrySources(CarriedTwice(data), data))
             = 2 * BalanceSum(CarryForwardAssigns(data), CarrySources(CarryForwardAssigns(data), data))

\* C27 witness: a row and the row an earlier carry-forward call made of it,
\* both selected by one call, beside nothing else: the same call made again
\* carries both.
CarriedRowCarriedAgain ==
    \E data \in FeesCarryForwardRequest, i, j \in DOMAIN assigns :
        /\ ~assigns[i].is_carried_forward
        /\ assigns[j].is_carried_forward
        /\ assigns[j].student_id = assigns[i].student_id
        /\ assigns[j].fees_master_id = assigns[i].fees_master_id
        /\ {i, j} \subseteq CarrySources(assigns, data)
        /\ Len(CarryForwardCreated(assigns, data)) = 2

\* the providers an environment configures, in precedence order: those whose
\* key variable is not empty
RECURSIVE ConfiguredFrom(_, _)
ConfiguredFrom(env, i) ==
    IF i > Len(ProviderTable) THEN <<>>
    ELSE (IF env[ProviderTable[i].key] # "" THEN <<ProviderTable[i].name>> ELSE <<>>)
         \o ConfiguredFrom(env, i + 1)

Configured(env) == ConfiguredFrom(env, 1)

\* the place in a provider list of the first provider whose endpoint answers,
\* 0 when none does
FirstAnswering(conf, answers) ==
    IF \E k \in DOMAIN conf : answers[conf[k]] = "ok"
      THEN CHOOSE k \in DOMAIN conf :
               /\ answers[conf[k]] = "ok"
               /\ \A j \in 1 .. (k - 1) : answers[conf[j]] # "ok"
      ELSE 0

\* C21: in a finished call the providers tried are the configured providers,
\* in precedence order, up to and including the first whose endpoint answers
\* (all of them when none answers), each once; when one answers, the call
\* returns the stripped text of that one.
FirstSuccessWins ==
    call.pc = "done"
    => LET conf == Configured(call.env)
           o == call.outcome
           k == FirstAnswering(conf, call.answers)
       IN IF k # 0
            THEN /\ o.tried = SubSeq(conf, 1, k)
                 /\ o.kind = "return"
                 /\ o.text = Strip(AnswerBody(conf[k]))
            ELSE /\ o.tried = conf
                 /\ o.kind = "raise"

\* C22: a finished call with at least one configured provider, none of whose
\* endpoints answers, raises the all-providers-failed error, whose message has
\* one entry for each configured provider, in precedence order, with the
\* provider's name and its own failure; it returns nothing.
AllFailedReportsEach ==
    (/\ call.pc = "done"
     /\ Configured(call.env) # <<>>
     /\ FirstAnswering(Configured(call.env), call.answers) = 0)
    => LET conf == Configured(call.env)
           o == call.outcome
       IN /\ o.kind = "raise"
          /\ o.error = "All AI providers failed"
          /\ o.text = <<>>
          /\ o.entries = [j \in DOMAIN conf |-> <<conf[j], call.answers[conf[j]]>>]

\* C23: in a finished call only providers whose key is not empty are tried; a
\* key that is empty or not set raises nothing, the provider is left out; and
\* when no provider has a key the call raises the no-provider-configured
\* error and sends no request.
KeysDecideProviders ==
    call.pc = "done"
    => LET conf == Configured(call.env)
           o == call.outcome
       IN /\ \A j \in DOMAIN o.tried : \E i \in DOMAIN conf : conf[i] = o.tried[j]
          /\ o.error # "AttributeError"
          /\ conf = <<>> => /\ o.kind = "raise"
                            /\ o.error = "No AI providers configured"
                            /\ o.sent = <<>>

\* C24: for a text without a fence that holds one JSON object with prose
\* around it, the span sliced is exactly the object, from its opening brace
\* to the brace that closes it, and the object is the value returned,
\* whatever its string values hold; when the opening brace is never closed
\* the extraction raises and returns nothing.
ExtractSlicesTheObject ==
    (/\ extract.pc = "done"
     /\ extract.input.fence = "none"
     /\ \A i \in DOMAIN extract.input.pre : extract.input.pre[i] \notin {"{", "}"})
    => /\ extract.input.doc \in {"flat", "nested", "list", "closer", "opener"}
          => /\ BraceSlice(extract.text) = Doc(extract.input.doc, extract.input.comma)
             /\ extract.outcome = [kind |-> "return", value |-> JsonLoads(Doc(extract.input.doc, FALSE)).value]
       /\ extract.input.doc = "open" => extract.outcome.kind = "raise"

\* C25: for a text with a fenced block, tagged json or not, the value
\* returned is that of the content of the block, whatever the text outside the
\* block, and a trailing comma before a closing brace or bracket in the
\* content changes nothing.
ExtractParsesFencedContent ==
    (/\ extract.pc = "done"
     /\ extract.input.fence # "none"
     /\ extract.input.doc # "open")
    => extract.outcome = [kind |-> "return", value |-> JsonLoads(Doc(extract.input.doc, FALSE)).value]

====
